---- MODULE Spec2Model ----
(***************************************************************************)
(* Model of the gpxrun executable of the gpx package: the command loop     *)
(* runMainWrapper, the initialisation wpInitGpx, the reader of the gpx     *)
(* text format, wpReadGpxFile, and the example wpSolveFromStruct with the  *)
(* gpx functions it calls.                                                 *)
(*                                                                         *)
(* Spec follows wpReadGpxFile one loop iteration (one ReadString call) per *)
(* step, over every input of up to MaxLines lines.  SpecMenu takes one     *)
(* step per command of runMainWrapper, the files read being whole files    *)
(* of the set Files.                                                       *)
(*                                                                         *)
(* A line of text is [indent, words]: `indent' whitespace characters, the  *)
(* words separated by single blanks.  A result of ReadString is            *)
(* [line, err]: err = "nil" when the line was ended by '\n', "EOF" when    *)
(* the stream ended first (line holds what was read before it, possibly    *)
(* nothing), "fault" for any other read error.                             *)
(* A float64 is written as its canonical decimal string.                   *)
(***************************************************************************)
EXTENDS FiniteSets, Integers, Sequences, TLC

\* Bounds of the model.
MaxLines == 3       \* newline-terminated lines of one input file
MaxSolverLen == 1   \* rows, and columns, of the problem in the solver
MaxSolnLen == 3     \* entries of a solution slice

VARIABLES
    pc,          \* "menu": runMainWrapper prompts; "read": inside the read
                 \* loop of wpReadGpxFile; "exit": option 0 was entered
    gName, gRows, gCols, gElem, gObj,    \* package globals (input model)
    sObjVal, sRows, sCols,               \* package globals (solution)
    readState,   \* wpReadGpxFile: data block currently being processed
    lineNum,     \* wpReadGpxFile: line number being processed
    err,         \* value returned by the last call of wpReadGpxFile
    warnings,    \* line counts printed by the missing-terminator warning
                 \* during the current/last command
    input,       \* results of ReadString during the current/last command
    dirty,       \* whether any of the four lists held an entry when the
                 \* current/last call of wpReadGpxFile was entered
    out,         \* the last thing runMainWrapper or wpReadGpxFile printed
    cmdOption,   \* runMainWrapper: the command read last
    gpxMenuOn,   \* flag for enabling gpx functions
    cplex,       \* the solver behind gpx: the C globals env and lp, and the
                 \* problem loaded
    calls,       \* gpx functions called by the current/last command, in
                 \* order, each with what it was given and whether it
                 \* returned nil
    fault        \* the solver call that failed during the current/last
                 \* command: the gpx function and which of its calls

vars == <<pc, gName, gRows, gCols, gElem, gObj, sObjVal, sRows, sCols,
          readState, lineNum, err, warnings, input, dirty, out,
          cmdOption, gpxMenuOn, cplex, calls, fault>>

----------------------------------------------------------------------------
\* Text: lines, characters, tokens.

Line(i, w) == [indent |-> i, words |-> w]

Comment      == Line(0, <<"#note">>)
Blank        == Line(0, <<>>)
IndentedHash == Line(1, <<"#note">>)
NameA        == Line(0, <<"PROBLEM_NAME:", "A">>)
NameB        == Line(0, <<"problem_name:", "B">>)
NameNone     == Line(0, <<"PROBLEM_NAME:">>)
ObjStart     == Line(0, <<"OBJECTIVE_START">>)
RowsStart    == Line(0, <<"ROWS_START">>)
ColsStart    == Line(0, <<"COLUMNS_START">>)
ElemStart    == Line(0, <<"ELEMENTS_START">>)
EndData      == Line(0, <<"END_DATA">>)
ObjLine      == Line(0, <<"0", "1.0">>)
RowLine      == Line(0, <<"c1", "L", "10.0", "0.0">>)
ColLine      == Line(0, <<"x1", "I", "zz", "100.0">>)
ElemLine     == Line(0, <<"1", "zz", "1e999">>)

\* The lines an input file is made of, and what may precede end-of-file
\* when the last line has no newline.
Lines == {Comment, Blank, IndentedHash, NameA, NameB, NameNone, ObjStart,
          RowsStart, ColsStart, ElemStart, EndData,
          ObjLine, RowLine, ColLine, ElemLine}
Partials == {Blank, EndData, RowLine}

\* The results of fileReader.ReadString('\n').
Reads == [line : Lines, err : {"nil"}] \cup [line : Partials, err : {"EOF"}]
           \cup [line : {Blank}, err : {"fault"}]

\* Whole files, as the sequence of results ReadString gives until it
\* reports the end of the file or a fault.
ColLineC == Line(0, <<"x2", "C", "0.0", "100.0">>)
ObjLine1 == Line(0, <<"1", "1.0">>)

TextFile(lines) ==
    [i \in 1..(Len(lines) + 1) |->
        IF i <= Len(lines) THEN [line |-> lines[i], err |-> "nil"]
        ELSE [line |-> Blank, err |-> "EOF"]]

LpFile ==
    TextFile(<<NameA, ObjStart, ObjLine, RowsStart, RowLine, ColsStart,
               ColLineC, ElemStart, ElemLine, EndData>>)
MipFile ==
    TextFile(<<ObjStart, ObjLine, RowsStart, RowLine, ColsStart, ColLineC,
               ColLine, ElemStart, ElemLine>>)
ObjOutFile ==
    TextFile(<<ObjStart, ObjLine1, RowsStart, RowLine, ColsStart, ColLineC,
               ElemStart, ElemLine, EndData>>)
NoColsFile  == TextFile(<<RowsStart, RowLine, EndData>>)
BadFile     == TextFile(<<Comment, RowLine>>)
ShortFile   == TextFile(<<NameB, ObjStart, RowLine>>)
FaultFile   == <<[line |-> RowsStart, err |-> "nil"],
                 [line |-> Blank, err |-> "fault"]>>
Files == {LpFile, MipFile, ObjOutFile, NoColsFile, BadFile, ShortFile,
          FaultFile}
\* What os.Open gives for the name the user enters: one of the files, or
\* an error.
NoFile == <<>>
Opens  == Files \cup {NoFile}

\* First character of a word.
FirstChar(w) ==
    CASE w = "#note" -> "#"
      [] w \in {"PROBLEM_NAME:"} -> "P"
      [] w = "problem_name:" -> "p"
      [] w = "OBJECTIVE_START" -> "O"
      [] w = "ROWS_START" -> "R"
      [] w = "COLUMNS_START" -> "C"
      [] w \in {"ELEMENTS_START", "END_DATA"} -> "E"
      [] w \in {"0", "0.0"} -> "0"
      [] w \in {"1", "1.0", "10.0", "100.0", "1e999"} -> "1"
      [] w = "2.5" -> "2"
      [] w = "c1" -> "c"
      [] w \in {"x1", "x2"} -> "x"
      [] w = "zz" -> "z"
      [] OTHER -> w

\* Number of characters of the string ReadString returned: the line's text
\* and, when err = "nil", the newline that ended it.
RECURSIVE WordChars(_)
WordChars(w) == IF w = <<>> THEN 0 ELSE Len(Head(w)) + WordChars(Tail(w))
\* Mutant of RawLen: the string returned does not hold the newline.
RawLenNoNewline(r) ==
    r.line.indent + WordChars(r.line.words)
      + (IF Len(r.line.words) > 1 THEN Len(r.line.words) - 1 ELSE 0)

RawLen(r) ==
    r.line.indent + WordChars(r.line.words)
      + (IF Len(r.line.words) > 1 THEN Len(r.line.words) - 1 ELSE 0)
      + (IF r.err = "nil" THEN 1 ELSE 0)

\* Mutant of CurLine0: the first character after the leading whitespace.
CurLine0Trimmed(r) ==
    IF r.line.words # <<>> THEN FirstChar(r.line.words[1]) ELSE "\n"

\* curLine[0]
CurLine0(r) ==
    IF r.line.indent > 0 THEN " "
    ELSE IF r.line.words # <<>> THEN FirstChar(r.line.words[1])
    ELSE "\n"

\* strings.Fields
Fields(r) == r.line.words

\* strings.ToUpper
ToUpper(w) ==
    CASE w = "problem_name:" -> "PROBLEM_NAME:"
      [] w = "#note" -> "#NOTE"
      [] w = "c1" -> "C1"
      [] w = "x1" -> "X1"
      [] w = "x2" -> "X2"
      [] w = "zz" -> "ZZ"
      [] OTHER -> w

\* strconv.ParseInt(s, 10, 64): the value returned (0 on a syntax error).
ParseInt(s) ==
    CASE s = "0" -> 0
      [] s = "1" -> 1
      [] OTHER -> 0

\* strconv.ParseInt(s, 10, 64): the error returned, which the caller drops.
ParseIntErr(s) == IF s \in {"0", "1"} THEN "nil" ELSE "syntax"

\* Mutant of ParseFloat: a value out of range gives 0.
ParseFloatRangeZero(s) ==
    CASE s \in {"0", "0.0"} -> "0"
      [] s \in {"1", "1.0"} -> "1"
      [] s = "10.0" -> "10"
      [] s = "100.0" -> "100"
      [] s = "2.5" -> "2.5"
      [] OTHER -> "0"

\* strconv.ParseFloat(s, 64): the value returned: 0 on a syntax error, an
\* infinity of the sign of s when s is well-formed but out of range.
ParseFloat(s) ==
    CASE s \in {"0", "0.0"} -> "0"
      [] s \in {"1", "1.0"} -> "1"
      [] s = "10.0" -> "10"
      [] s = "100.0" -> "100"
      [] s = "2.5" -> "2.5"
      [] s = "1e999" -> "+Inf"
      [] OTHER -> "0"

\* strconv.ParseFloat(s, 64): the error returned, which the caller drops.
ParseFloatErr(s) ==
    CASE s \in {"0", "0.0", "1", "1.0", "10.0", "100.0", "2.5"} -> "nil"
      [] s = "1e999" -> "range"
      [] OTHER -> "syntax"

----------------------------------------------------------------------------
\* Values.

Nil == [kind |-> "nil", line |-> 0]
Errorf(k, n) == [kind |-> k, line |-> n]

InputRow(n, s, r, g)  == [Name |-> n, Sense |-> s, Rhs |-> r, RngVal |-> g]
InputCol(n, t, lo, up) == [Name |-> n, Type |-> t, BndLo |-> lo, BndUp |-> up]
InputElem(r, c, v)    == [RowIndex |-> r, ColIndex |-> c, Value |-> v]
InputObjCoef(c, v)    == [ColIndex |-> c, Value |-> v]
SolnRow(n, s, p)      == [Name |-> n, Slack |-> s, Pi |-> p]
SolnCol(n, v, r)      == [Name |-> n, Value |-> v, RedCost |-> r]

\* Flag for the main functions: no command changes it.
mainMenuOn == TRUE

\* The C globals env and lp (TRUE: not NULL) and the problem lp points to:
\* its name, the names of its rows and columns, and whether its columns
\* were created without a type array ("NULL"), with one ("types"), or not
\* yet ("none").
NoCplex == [env |-> FALSE, lp |-> FALSE, name |-> "", rows |-> <<>>,
            cols |-> <<>>, ctype |-> "none"]

\* No solver call fails.
NoFailure == [op |-> "", st |-> 0]

Init ==
    /\ pc = "menu"
    /\ gName = ""
    /\ gRows = <<>> /\ gCols = <<>> /\ gElem = <<>> /\ gObj = <<>>
    /\ sObjVal = "0" /\ sRows = <<>> /\ sCols = <<>>
    /\ readState = -1
    /\ lineNum = 0
    /\ err = Nil
    /\ warnings = <<>>
    /\ input = <<>>
    /\ dirty = FALSE
    /\ out = "options"
    /\ cmdOption = ""
    /\ gpxMenuOn = FALSE
    /\ cplex = NoCplex
    /\ calls = <<>>
    /\ fault = NoFailure

----------------------------------------------------------------------------
\* wpReadGpxFile.  The state the loop works on is the record
\* [readState, name, rows, cols, elem, obj]: the local readState and what
\* the five pointer arguments point to.

Model(rs, nm, rows, cols, elem, obj) ==
    [readState |-> rs, name |-> nm, rows |-> rows, cols |-> cols,
     elem |-> elem, obj |-> obj]

\* Mutant of EntryReset: the objective list is not emptied.
EntryResetKeepsObj(m) == Model(-1, m.name, <<>>, <<>>, <<>>, m.obj)

\* "Initialize lists that will be returned": the assignments made on entry,
\* applied to the values the arguments point to.
EntryReset(m) == Model(-1, m.name, <<>>, <<>>, <<>>, <<>>)

\* lineNum++
NextLineNum(n) == n + 1

\* Mutant of ProbName: the first field is stored instead of the second.
ProbNameFirstField(token, numTokens) ==
    IF numTokens = 1 THEN "NoName" ELSE token[1]

\* case "PROBLEM_NAME:": the name stored.
ProbName(token, numTokens) == IF numTokens = 1 THEN "NoName" ELSE token[2]

\* Mutant of UnexpectedFormat: state 0 is rejected too.
UnexpectedFormatInState0(rs) == rs <= 0

\* default: "if readState < 0"
UnexpectedFormat(rs) == rs < 0

\* Mutant of KeywordSwitch: ROWS_START starts the list of rows afresh.
KeywordSwitchClearsRows(token, numTokens, m, n) ==
    LET kw == ToUpper(token[1])
        Goto(s) == [next |-> "continue", m |-> [m EXCEPT !.readState = s],
                    err |-> Nil]
    IN  CASE kw = "PROBLEM_NAME:" ->
               [next |-> "continue",
                m |-> [m EXCEPT !.readState = 0,
                                !.name = ProbName(token, numTokens)],
                err |-> Nil]
          [] kw = "OBJECTIVE_START" -> Goto(1)
          [] kw = "ROWS_START"      ->
               [next |-> "continue",
                m |-> [m EXCEPT !.readState = 2, !.rows = <<>>], err |-> Nil]
          [] kw = "COLUMNS_START"   -> Goto(3)
          [] kw = "ELEMENTS_START"  -> Goto(4)
          [] kw = "END_DATA" ->
               [next |-> "fall", m |-> [m EXCEPT !.readState = 5], err |-> Nil]
          [] OTHER ->
               IF UnexpectedFormat(m.readState)
               THEN [next |-> "return", m |-> m, err |-> Errorf("format", n)]
               ELSE [next |-> "fall", m |-> m, err |-> Nil]

\* The switch on strings.ToUpper(token[0]).  next = "continue": the loop goes
\* to its next iteration; "fall": control reaches the code after the switch;
\* "return": the function returns err.
KeywordSwitch(token, numTokens, m, n) ==
    LET kw == ToUpper(token[1])
        Goto(s) == [next |-> "continue", m |-> [m EXCEPT !.readState = s],
                    err |-> Nil]
    IN  CASE kw = "PROBLEM_NAME:" ->
               [next |-> "continue",
                m |-> [m EXCEPT !.readState = 0,
                                !.name = ProbName(token, numTokens)],
                err |-> Nil]
          [] kw = "OBJECTIVE_START" -> Goto(1)
          [] kw = "ROWS_START"      -> Goto(2)
          [] kw = "COLUMNS_START"   -> Goto(3)
          [] kw = "ELEMENTS_START"  -> Goto(4)
          [] kw = "END_DATA" ->
               [next |-> "fall", m |-> [m EXCEPT !.readState = 5], err |-> Nil]
          [] OTHER ->
               IF UnexpectedFormat(m.readState)
               THEN [next |-> "return", m |-> m, err |-> Errorf("format", n)]
               ELSE [next |-> "fall", m |-> m, err |-> Nil]

\* Mutant of BreakOnEnd: the loop is not left.
BreakOnEndNever(m) == FALSE

\* "if readState == 5 { break }": TRUE when the loop is left.
BreakOnEnd(m) == m.readState = 5

\* Mutant of ObjCase: a line of the wrong length empties the list.
ObjCaseRollsBack(token, numTokens, m, n) ==
    IF numTokens # 2
    THEN [m |-> [m EXCEPT !.obj = <<>>], err |-> Errorf("OBJ", n)]
    ELSE [m |-> [m EXCEPT !.obj = Append(@,
                   InputObjCoef(ParseInt(token[1]), ParseFloat(token[2])))],
          err |-> Nil]

\* case 1: Objective function
ObjCase(token, numTokens, m, n) ==
    IF numTokens # 2
    THEN [m |-> m, err |-> Errorf("OBJ", n)]
    ELSE [m |-> [m EXCEPT !.obj = Append(@,
                   InputObjCoef(ParseInt(token[1]), ParseFloat(token[2])))],
          err |-> Nil]

\* Mutant of RowCase: the error carries the 0-based line number.
RowCaseZeroBasedLine(token, numTokens, m, n) ==
    IF numTokens # 4
    THEN [m |-> m, err |-> Errorf("ROW", n - 1)]
    ELSE [m |-> [m EXCEPT !.rows = Append(@,
                   InputRow(token[1], token[2], ParseFloat(token[3]),
                            ParseFloat(token[4])))],
          err |-> Nil]

\* case 2: Reading rows
RowCase(token, numTokens, m, n) ==
    IF numTokens # 4
    THEN [m |-> m, err |-> Errorf("ROW", n)]
    ELSE [m |-> [m EXCEPT !.rows = Append(@,
                   InputRow(token[1], token[2], ParseFloat(token[3]),
                            ParseFloat(token[4])))],
          err |-> Nil]

\* Mutant of ColCase: the bounds are stored in each other's field.
ColCaseBoundsSwapped(token, numTokens, m, n) ==
    IF numTokens # 4
    THEN [m |-> m, err |-> Errorf("COL", n)]
    ELSE [m |-> [m EXCEPT !.cols = Append(@,
                   InputCol(token[1], token[2], ParseFloat(token[4]),
                            ParseFloat(token[3])))],
          err |-> Nil]

\* case 3: Reading columns
ColCase(token, numTokens, m, n) ==
    IF numTokens # 4
    THEN [m |-> m, err |-> Errorf("COL", n)]
    ELSE [m |-> [m EXCEPT !.cols = Append(@,
                   InputCol(token[1], token[2], ParseFloat(token[3]),
                            ParseFloat(token[4])))],
          err |-> Nil]

\* case 4: Reading elements
ElemCase(token, numTokens, m, n) ==
    IF numTokens # 3
    THEN [m |-> m, err |-> Errorf("ELEM", n)]
    ELSE [m |-> [m EXCEPT !.elem = Append(@,
                   InputElem(ParseInt(token[1]), ParseInt(token[2]),
                             ParseFloat(token[3])))],
          err |-> Nil]

\* Mutant of DataSwitch: in state 0 a line is a line of rows.
DataSwitchState0Rows(token, numTokens, m, n) ==
    CASE m.readState = 1 -> ObjCase(token, numTokens, m, n)
      [] m.readState \in {0, 2} -> RowCase(token, numTokens, m, n)
      [] m.readState = 3 -> ColCase(token, numTokens, m, n)
      [] m.readState = 4 -> ElemCase(token, numTokens, m, n)
      [] OTHER -> [m |-> m, err |-> Nil]

\* The switch on readState: the data line of the active block.
DataSwitch(token, numTokens, m, n) ==
    CASE m.readState = 1 -> ObjCase(token, numTokens, m, n)
      [] m.readState = 2 -> RowCase(token, numTokens, m, n)
      [] m.readState = 3 -> ColCase(token, numTokens, m, n)
      [] m.readState = 4 -> ElemCase(token, numTokens, m, n)
      [] OTHER -> [m |-> m, err |-> Nil]

\* Mutant of OnEOF: end-of-file never ends the call.
OnEOFGoesOn(m) == "go on"

\* What the loop does with io.EOF from ReadString: "warn" (print the
\* warning and return nil) or "go on" with eof set.
OnEOF(m) == IF m.readState # 5 THEN "warn" ELSE "go on"

\* The part of an iteration after the read succeeded (or hit end-of-file in
\* state 5): comment test, tokens, the two switches.  n is lineNum.
ProcessLine(r, m, n) ==
    IF RawLen(r) = 0
    THEN [next |-> "return", m |-> m, err |-> Errorf("panic", n)]
    ELSE IF CurLine0(r) = "#"
    THEN [next |-> "continue", m |-> m, err |-> Nil]
    ELSE LET token     == Fields(r)
             numTokens == Len(token)
         IN  IF numTokens = 0
             THEN [next |-> "continue", m |-> m, err |-> Nil]
             ELSE LET k == KeywordSwitch(token, numTokens, m, n)
                  IN  IF k.next # "fall" THEN k
                      ELSE IF BreakOnEnd(k.m)
                      THEN [next |-> "return", m |-> k.m, err |-> Nil]
                      ELSE LET d == DataSwitch(token, numTokens, k.m, n)
                           IN  [next |-> IF d.err = Nil THEN "continue"
                                         ELSE "return",
                                m |-> d.m, err |-> d.err]

\* The tokens an iteration reads that reaches the switch on token[0] with
\* numTokens tokens, the first in upper case being kw, in state rs: the
\* indexes i of the expressions token[i] evaluated.
TokensRead(numTokens, kw, rs) ==
    {0} \cup
    CASE kw = "PROBLEM_NAME:" -> IF numTokens = 1 THEN {} ELSE {1}
      [] kw \in {"OBJECTIVE_START", "ROWS_START", "COLUMNS_START",
                 "ELEMENTS_START", "END_DATA"} -> {}
      [] OTHER ->
           CASE rs = 1 -> IF numTokens # 2 THEN {} ELSE {0, 1}
             [] rs = 2 -> IF numTokens # 4 THEN {} ELSE {0, 1, 2, 3}
             [] rs = 3 -> IF numTokens # 4 THEN {} ELSE {0, 1, 2, 3}
             [] rs = 4 -> IF numTokens # 3 THEN {} ELSE {0, 1, 2}
             [] OTHER -> {}

\* Mutant of Iteration: a read error does not end the loop.
IterationReadsOn(r, m, n) ==
    IF r.err = "EOF" /\ OnEOF(m) = "warn"
    THEN [next |-> "return", m |-> m, err |-> Nil, warn |-> <<n>>]
    ELSE IF r.err = "fault"
    THEN [next |-> "continue", m |-> m, err |-> Errorf("read", n),
          warn |-> <<>>]
    ELSE LET p == ProcessLine(r, m, n)
         IN  [next |-> IF p.next = "continue" /\ r.err = "EOF"
                       THEN "return" ELSE p.next,
              m |-> p.m, err |-> p.err, warn |-> <<>>]

\* One iteration of "for !eof": lineNum has been incremented to n and
\* ReadString returned r.  warn is what the iteration prints.
Iteration(r, m, n) ==
    IF r.err = "EOF" /\ OnEOF(m) = "warn"
    THEN [next |-> "return", m |-> m, err |-> Nil, warn |-> <<n>>]
    ELSE IF r.err = "fault"
    THEN [next |-> "return", m |-> m, err |-> Errorf("read", n),
          warn |-> <<>>]
    ELSE LET p == ProcessLine(r, m, n)
         IN  [next |-> IF p.next = "continue" /\ r.err = "EOF"
                       THEN "return" ELSE p.next,
              m |-> p.m, err |-> p.err, warn |-> <<>>]

\* The read loop run to its return on the ReadString results `in',
\* starting with the loop state m after n lines.
RECURSIVE RunLoop(_, _, _)
RunLoop(in, m, n) ==
    IF in = <<>> THEN [m |-> m, err |-> Nil, n |-> n, warn |-> <<>>]
    ELSE CHOOSE ret \in
           {IF it.next = "continue"
            THEN RunLoop(Tail(in), it.m, NextLineNum(n))
            ELSE [m |-> it.m, err |-> it.err, n |-> NextLineNum(n),
                  warn |-> it.warn] :
              it \in {Iteration(Head(in), m, NextLineNum(n))}} : TRUE

\* wpReadGpxFile as one call on the values m the five arguments point to:
\* the file named cannot be opened (NoFile), or it gives the ReadString
\* results `file'.
wpReadGpxFile(m, file) ==
    IF file = NoFile
    THEN [m |-> EntryReset(m), err |-> Errorf("open", 0), n |-> 0,
          warn |-> <<>>]
    ELSE RunLoop(file, EntryReset(m), 0)

\* wpReadGpxFile called on the globals as they are when the program starts,
\* the file giving the ReadString results `in'.
FirstParse(in) ==
    RunLoop(in, EntryReset(Model(-1, "", <<>>, <<>>, <<>>, <<>>)), 0)

----------------------------------------------------------------------------
\* Package gpx.  Every function works on the C globals (the record cplex,
\* here c) and returns the record after it with res: "nil", "error" or
\* "panic" (a run-time panic of the Go code).  st tells which of the solver
\* calls the function makes returns a non-zero status: 0 for none, k for
\* the k-th.

Ret(c, res) == [c |-> c, res |-> res]

\* A value the solver computed.
SolverValues == {"2.5"}

NamesOf(list) == [i \in 1..Len(list) |-> list[i].Name]

\* CreateProb: cOpenCplex, cCheckData, cCreateProb.
CreateProb(Name, c, st) ==
    LET nm == IF Name = "" THEN "DefaultName" ELSE Name
    IN  CASE st = 1 -> Ret([c EXCEPT !.env = FALSE], "error")
          [] st = 2 -> Ret([c EXCEPT !.env = TRUE], "error")
          [] st = 3 -> Ret([NoCplex EXCEPT !.env = TRUE], "error")
          [] OTHER  -> Ret([NoCplex EXCEPT !.env = TRUE, !.lp = TRUE,
                                           !.name = nm], "nil")

\* OutputToScreen: cOutputToScreen.
OutputToScreen(echoOn, c, st) ==
    IF st # 0 THEN Ret(c, "error") ELSE Ret(c, "nil")

\* NewRows: cCreateRows.
NewRows(rList, c, st) ==
    IF Len(rList) < 1 THEN Ret(c, "error")
    ELSE IF st # 0 THEN Ret(c, "error")
    ELSE Ret([c EXCEPT !.rows = @ \o NamesOf(rList)], "nil")

\* NewCols: the value of isMip after the loop over cList.
NewColsIsMip(cList) ==
    IF \E i \in 1..Len(cList) : cList[i].Type # "C" THEN 1 ELSE 0

\* NewCols: cCreateCols.  obj[objList[i].ColIndex] is an index into a slice
\* of len(cList) elements.
NewCols(objList, cList, c, st) ==
    IF Len(cList) < 1 THEN Ret(c, "error")
    ELSE IF \E i \in 1..Len(objList) :
                objList[i].ColIndex \notin 0..(Len(cList) - 1)
    THEN Ret(c, "panic")
    ELSE IF st # 0 THEN Ret(c, "error")
    ELSE Ret([c EXCEPT !.cols = @ \o NamesOf(cList),
                       !.ctype = IF NewColsIsMip(cList) = 1 THEN "types"
                                 ELSE "NULL"], "nil")

\* ChgCoefList: cChgCoefList.
ChgCoefList(eList, c, st) ==
    IF Len(eList) < 1 THEN Ret(c, "error")
    ELSE IF st # 0 THEN Ret(c, "error")
    ELSE Ret(c, "nil")

\* LpOpt: cLpOpt.  CPXlpopt fails on a problem whose columns were created
\* with a type array (CPXERR_NOT_FOR_MIP).
LpOpt(c, st) ==
    IF st # 0 \/ c.ctype = "types" THEN Ret(c, "error") ELSE Ret(c, "nil")

\* MipOpt: cMipOpt.
MipOpt(c, st) == IF st # 0 THEN Ret(c, "error") ELSE Ret(c, "nil")

\* What the Get functions return: the slice or the three values they were
\* given pointers to, and res.
Got(val, res) == [val |-> val, res |-> res]

\* Mutant of SetField: the other fields of an entry written are emptied.
SetFieldClearsOthers(list, n, fld, vals) ==
    [i \in 1..Len(list) |->
        IF i <= n
        THEN [[g \in DOMAIN list[i] |-> ""] EXCEPT ![fld] = vals[i]]
        ELSE list[i]]

\* list with the field fld of its first n entries set to vals[i].
SetField(list, n, fld, vals) ==
    [i \in 1..Len(list) |->
        IF i <= n THEN [list[i] EXCEPT ![fld] = vals[i]] ELSE list[i]]

\* A sequence of n times the value v.
Times(n, v) == [i \in 1..n |-> v]

\* GetColName: cGetColNameSurplus, cGetColNames.
GetColName(sC, c, st) ==
    IF Len(sC) # Len(c.cols) THEN Got(sC, "error")
    ELSE IF st # 0 THEN Got(sC, "error")
    ELSE Got(SetField(sC, Len(c.cols), "Name", c.cols), "nil")

\* GetRowName: cGetRowNameSurplus, cGetRowNames.
GetRowName(sR, c, st) ==
    IF Len(sR) # Len(c.rows) THEN Got(sR, "error")
    ELSE IF st # 0 THEN Got(sR, "error")
    ELSE Got(SetField(sR, Len(c.rows), "Name", c.rows), "nil")

\* GetX: cGetX, giving v for every column.
GetX(sC, c, st, v) ==
    IF Len(sC) < Len(c.cols) THEN Got(sC, "error")
    ELSE IF Len(c.cols) = 0 THEN Got(sC, "panic")
    ELSE IF st # 0 THEN Got(sC, "error")
    ELSE Got(SetField(sC, Len(c.cols), "Value", Times(Len(c.cols), v)),
             "nil")

\* GetSlack: cGetSlack, giving v for every row.
GetSlack(sR, c, st, v) ==
    IF Len(sR) < Len(c.rows) THEN Got(sR, "error")
    ELSE IF Len(c.rows) = 0 THEN Got(sR, "panic")
    ELSE IF st # 0 THEN Got(sR, "error")
    ELSE Got(SetField(sR, Len(c.rows), "Slack", Times(Len(c.rows), v)),
             "nil")

\* GetObjVal: cGetObjVal, giving v.
GetObjVal(c, st, v) == IF st # 0 THEN Got("0", "error") ELSE Got(v, "nil")

\* The three values a solution is made of.
Soln(objVal, sR, sC) == [objVal |-> objVal, sRows |-> sR, sCols |-> sC]

\* GetSolution: cGetSolution (1), then GetColName (2, 3) and GetRowName
\* (4, 5); the solver gives v for every number.
GetSolution(sol, c, st, v) ==
    IF Len(c.cols) = 0 \/ Len(c.rows) = 0 THEN Got(sol, "panic")
    ELSE IF st = 1 THEN Got(sol, "error")
    ELSE LET cols == sol.sCols \o Times(Len(c.cols), SolnCol("", v, v))
             gc   == GetColName(cols, c, IF st \in {2, 3} THEN st - 1 ELSE 0)
             rows == sol.sRows \o Times(Len(c.rows), SolnRow("", v, v))
             gr   == GetRowName(rows, c, IF st \in {4, 5} THEN st - 3 ELSE 0)
         IN  IF gc.res # "nil"
             THEN Got(Soln(v, sol.sRows, gc.val), "error")
             ELSE Got(Soln(v, gr.val, gc.val), gr.res)

\* GetMipSolution: GetObjVal (1), GetRowName (2, 3), GetSlack (4),
\* GetColName (5, 6), GetX (7); the solver gives v for every number.
GetMipSolution(sol, c, st, v) ==
    LET rows0 == Times(Len(c.rows), SolnRow("", "0", "0"))
        cols0 == Times(Len(c.cols), SolnCol("", "0", "0"))
        go == GetObjVal(c, IF st = 1 THEN 1 ELSE 0, v)
        gr == GetRowName(rows0, c, IF st \in {2, 3} THEN st - 1 ELSE 0)
        gs == GetSlack(gr.val, c, IF st = 4 THEN 1 ELSE 0, v)
        gc == GetColName(cols0, c, IF st \in {5, 6} THEN st - 4 ELSE 0)
        gx == GetX(gc.val, c, IF st = 7 THEN 1 ELSE 0, v)
    IN  CASE go.res # "nil" -> Got(Soln(go.val, rows0, cols0), go.res)
          [] gr.res # "nil" -> Got(Soln(go.val, gr.val, cols0), gr.res)
          [] gs.res # "nil" -> Got(Soln(go.val, gs.val, cols0), gs.res)
          [] gc.res # "nil" -> Got(Soln(go.val, gs.val, gc.val), gc.res)
          [] OTHER          -> Got(Soln(go.val, gs.val, gx.val), gx.res)

\* SolWrite: cSolWrite.
SolWrite(c, st) == IF st # 0 THEN Ret(c, "error") ELSE Ret(c, "nil")

\* CloseCplex: cCloseCplex.  CPXfreeprob (1) is called when lp is not NULL,
\* CPXcloseCPLEX (2) when env is not NULL; st = 3: both fail.  The status
\* returned is that of the last call made.
CloseCplex(c, st) ==
    LET freeFails  == c.lp /\ st \in {1, 3}
        closeFails == c.env /\ st \in {2, 3}
        c1 == IF c.lp /\ ~freeFails
              THEN [c EXCEPT !.lp = FALSE, !.name = "", !.rows = <<>>,
                             !.cols = <<>>, !.ctype = "none"]
              ELSE c
        c2 == IF c.env /\ ~closeFails THEN [c1 EXCEPT !.env = FALSE] ELSE c1
        status == IF c.env THEN closeFails ELSE freeFails
    IN  Ret(c2, IF status THEN "error" ELSE "nil")

----------------------------------------------------------------------------
\* Actions.

Globals == Model(readState, gName, gRows, gCols, gElem, gObj)

SetModel(m) ==
    /\ readState' = m.readState
    /\ gName' = m.name
    /\ gRows' = m.rows
    /\ gCols' = m.cols
    /\ gElem' = m.elem
    /\ gObj'  = m.obj

\* What option 4 of runMainWrapper prints for the value wpReadGpxFile
\* returned.
Cmd4Print(e) == IF e # Nil THEN "error" ELSE "populated"

\* Option 4: wpReadGpxFile(&gRows, &gCols, &gElem, &gObj, &gName) up to the
\* read loop; the open of the file the user named succeeds or fails.
Cmd4 ==
    /\ pc = "menu"
    /\ \E opened \in BOOLEAN :
         /\ SetModel(EntryReset(Globals))
         /\ pc'  = IF opened THEN "read" ELSE "menu"
         /\ err' = IF opened THEN Nil ELSE Errorf("open", 0)
         /\ out' = IF opened THEN "file name" ELSE Cmd4Print(Errorf("open", 0))
    /\ lineNum' = 0
    /\ warnings' = <<>>
    /\ input' = <<>>
    /\ dirty' = (<<gRows, gCols, gElem, gObj>> # <<<<>>, <<>>, <<>>, <<>>>>)
    /\ cmdOption' = "4"
    /\ calls' = <<>>
    /\ fault' = NoFailure
    /\ UNCHANGED <<sObjVal, sRows, sCols, gpxMenuOn, cplex>>

\* One iteration of the read loop; a return goes back to option 4 of
\* runMainWrapper, which prints the outcome and prompts again.
ReadLine ==
    /\ pc = "read"
    /\ \E r \in Reads :
         /\ r.err = "nil" => Len(input) < MaxLines
         /\ LET it == Iteration(r, Globals, NextLineNum(lineNum))
            IN  /\ SetModel(it.m)
                /\ pc' = IF it.next = "continue" THEN "read" ELSE "menu"
                /\ err' = it.err
                /\ warnings' = warnings \o it.warn
                /\ out' = IF it.next = "continue" THEN out
                          ELSE Cmd4Print(it.err)
         /\ input' = Append(input, r)
    /\ lineNum' = NextLineNum(lineNum)
    /\ UNCHANGED <<sObjVal, sRows, sCols, dirty, cmdOption, gpxMenuOn,
                   cplex, calls, fault>>

\* wpInitGpx
wpInitGpx ==
    /\ gName' = ""
    /\ gRows' = <<>>
    /\ gCols' = <<>>
    /\ gElem' = <<>>
    /\ sObjVal' = "0"
    /\ sRows' = <<>>
    /\ sCols' = <<>>
    /\ UNCHANGED gObj

\* Option 3
Cmd3 ==
    /\ pc = "menu"
    /\ wpInitGpx
    /\ out' = "initialized"
    /\ warnings' = <<>>
    /\ input' = <<>>
    /\ cmdOption' = "3"
    /\ calls' = <<>>
    /\ fault' = NoFailure
    /\ UNCHANGED <<pc, readState, lineNum, err, dirty, gpxMenuOn, cplex>>

\* Option 0: the command loop returns.
Cmd0 ==
    /\ pc = "menu"
    /\ pc' = "exit"
    /\ out' = "termination"
    /\ warnings' = <<>>
    /\ input' = <<>>
    /\ cmdOption' = "0"
    /\ calls' = <<>>
    /\ fault' = NoFailure
    /\ UNCHANGED <<gName, gRows, gCols, gElem, gObj, sObjVal, sRows, sCols,
                   readState, lineNum, err, dirty, gpxMenuOn, cplex>>

Next == Cmd0 \/ Cmd3 \/ Cmd4 \/ ReadLine

Spec == Init /\ [][Next]_vars

\* A call of wpReadGpxFile that is inside its loop goes on running.
SpecFair == Spec /\ WF_vars(ReadLine)

----------------------------------------------------------------------------
\* The commands of runMainWrapper, one step each.

\* Mutant of wpIsMip: only the first column is looked at.
wpIsMipFirstCol(cols) == cols # <<>> /\ cols[1].Type # "C"

\* wpIsMip, on the list of columns.
wpIsMip(cols) == \E i \in 1..Len(cols) : cols[i].Type # "C"

\* wpInitGpx, on the values of the input globals.
wpInitGpxOn(m) ==
    [m EXCEPT !.name = "", !.rows = <<>>, !.cols = <<>>, !.elem = <<>>]

\* The solver call that fails during a command: call number st of the gpx
\* function op.
Failure(op, sts) == [op : {op}, st : sts]
StatusOf(fail, op) == IF fail.op = op THEN fail.st ELSE 0

\* The solver calls that can fail, per gpx function.
Failures ==
    Failure("CreateProb", 1..3) \cup Failure("OutputToScreen", {1})
      \cup Failure("NewRows", {1}) \cup Failure("NewCols", {1})
      \cup Failure("ChgCoefList", {1})
      \cup Failure("MipOpt", {1}) \cup Failure("GetMipSolution", {1, 7})
      \cup Failure("LpOpt", {1}) \cup Failure("GetSolution", {1, 5})
      \cup Failure("SolWrite", {1}) \cup Failure("CloseCplex", 1..3)

\* What the user answers to the three Y/N questions of wpSolveFromStruct:
\* display on the screen, save the solution, save the model.
Answer(d, s, m) == [disp |-> d, sol |-> s, mod |-> m]
Answers == {Answer(FALSE, FALSE, FALSE), Answer(TRUE, TRUE, FALSE),
            Answer(TRUE, TRUE, TRUE)}

\* wpWriteProb returns nothing; what it does to the solver is not followed.
wpWriteProb(c) == Ret(c, "nil")

\* A run of wpSolveFromStruct after wpReadGpxFile: the C globals, the
\* solution globals, the calls made and the result of the last of them.

\* Mutant of Called: a failure does not end the run.
CalledAnyway(S, op, r) ==
    [S EXCEPT !.c = r.c, !.res = r.res,
              !.calls = Append(@, [op |-> op, res |-> r.res,
                                   ctype |-> r.c.ctype])]

\* A call is made only while the run has not returned.
Called(S, op, r) ==
    IF S.res # "nil" THEN S
    ELSE [S EXCEPT !.c = r.c, !.res = r.res,
                   !.calls = Append(@, [op |-> op, res |-> r.res,
                                        ctype |-> r.c.ctype])]
Fetched(S, op, r) ==
    IF S.res # "nil" THEN S
    ELSE [S EXCEPT !.sol = r.val, !.res = r.res,
                   !.calls = Append(@, [op |-> op, res |-> r.res,
                                        ctype |-> S.c.ctype])]

\* The steps of wpSolveFromStruct after wpReadGpxFile, in the order of
\* its text.
StepNames == <<"CreateProb", "OutputToScreen", "NewRows", "NewCols",
               "ChgCoefList", "optimize", "solution", "SolWrite",
               "wpWriteProb", "CloseCplex">>

\* One step of wpSolveFromStruct on the run S: m is the model read, ans
\* the user's answers, fail the solver call that fails, v the value the
\* solver computes.
SolveStep(step, S, m, ans, fail, v) ==
    CASE step = "CreateProb" ->
           Called(S, step, CreateProb(m.name, S.c, StatusOf(fail, step)))
      [] step = "OutputToScreen" ->
           Called(S, step,
                  OutputToScreen(ans.disp, S.c, StatusOf(fail, step)))
      [] step = "NewRows" ->
           Called(S, step, NewRows(m.rows, S.c, StatusOf(fail, step)))
      [] step = "NewCols" ->
           Called(S, step,
                  NewCols(m.obj, m.cols, S.c, StatusOf(fail, step)))
      [] step = "ChgCoefList" ->
           Called(S, step, ChgCoefList(m.elem, S.c, StatusOf(fail, step)))
      [] step = "optimize" ->
           IF wpIsMip(m.cols)
           THEN Called(S, "MipOpt", MipOpt(S.c, StatusOf(fail, "MipOpt")))
           ELSE Called(S, "LpOpt", LpOpt(S.c, StatusOf(fail, "LpOpt")))
      [] step = "solution" ->
           IF wpIsMip(m.cols)
           THEN Fetched(S, "GetMipSolution",
                  GetMipSolution(S.sol, S.c,
                                 StatusOf(fail, "GetMipSolution"), v))
           ELSE Fetched(S, "GetSolution",
                  GetSolution(S.sol, S.c, StatusOf(fail, "GetSolution"), v))
      [] step = "SolWrite" ->
           IF ans.sol
           THEN Called(S, step, SolWrite(S.c, StatusOf(fail, step)))
           ELSE S
      [] step = "wpWriteProb" ->
           IF ans.mod THEN Called(S, step, wpWriteProb(S.c)) ELSE S
      [] step = "CloseCplex" ->
           Called(S, step, CloseCplex(S.c, StatusOf(fail, step)))

\* The steps from the k-th on.
RECURSIVE SolveFrom(_, _, _, _, _, _)
SolveFrom(k, S, m, ans, fail, v) ==
    IF k > Len(StepNames) THEN S
    ELSE CHOOSE ret \in
           {SolveFrom(k + 1, T, m, ans, fail, v) :
              T \in {SolveStep(StepNames[k], S, m, ans, fail, v)}} : TRUE

\* wpSolveFromStruct from "Set the display to screen parameter" on: m is
\* the model read, c the C globals, sol the solution globals.
SolveSteps(m, c, sol, ans, fail, v) ==
    SolveFrom(1, [c |-> c, sol |-> sol, calls |-> <<>>, res |-> "nil"],
              m, ans, fail, v)

\* The failures that make a difference to the run with the answers ans:
\* those of the functions that run calls when its solver calls succeed.
FailuresOf(m, c, ans) ==
    UNION {{NoFailure} \cup
           {f \in Failures : \E i \in 1..Len(S.calls) : S.calls[i].op = f.op} :
             S \in {SolveSteps(m, c, Soln("0", <<>>, <<>>), ans, NoFailure,
                               "0")}}

\* What option 1 of runMainWrapper prints for the value wpSolveFromStruct
\* returned; a panic ends the program with its message.
Cmd1Print(res) ==
    CASE res = "nil" -> "solved" [] res = "error" -> "error"
      [] OTHER -> "panic"

\* Mutant of Cmd1Pc: an error ends the command loop.
Cmd1PcErrorLeaves(res) == IF res = "nil" THEN "menu" ELSE "exit"

\* Where option 1 leaves the program.
Cmd1Pc(res) == IF res = "panic" THEN "panic" ELSE "menu"

\* Option 1: wpSolveFromStruct.
Cmd1 ==
    /\ pc = "menu"
    /\ \E file \in Opens :
         \E p \in {wpReadGpxFile(wpInitGpxOn(Globals), file)} :
             /\ SetModel(p.m)
             /\ lineNum' = p.n
             /\ err' = p.err
             /\ warnings' = p.warn
             /\ input' = SubSeq(file, 1, p.n)
             /\ IF p.err # Nil
                THEN /\ sObjVal' = "0" /\ sRows' = <<>> /\ sCols' = <<>>
                     /\ calls' = <<>>
                     /\ fault' = NoFailure
                     /\ out' = Cmd1Print("error")
                     /\ pc' = Cmd1Pc("error")
                     /\ UNCHANGED cplex
                ELSE \E ans \in Answers, v \in SolverValues :
                     \E fail \in FailuresOf(p.m, cplex, ans) :
                     \E S \in {SolveSteps(p.m, cplex, Soln("0", <<>>, <<>>),
                                           ans, fail, v)} :
                           /\ sObjVal' = S.sol.objVal
                           /\ sRows' = S.sol.sRows
                           /\ sCols' = S.sol.sCols
                           /\ cplex' = S.c
                           /\ calls' = S.calls
                           /\ fault' = fail
                           /\ out' = Cmd1Print(S.res)
                           /\ pc' = Cmd1Pc(S.res)
    /\ dirty' = (gObj # <<>>)
    /\ cmdOption' = "1"
    /\ UNCHANGED gpxMenuOn

\* Option 4, the whole call of wpReadGpxFile in one step.
Cmd4File ==
    /\ pc = "menu"
    /\ \E file \in Opens :
         \E p \in {wpReadGpxFile(Globals, file)} :
             /\ SetModel(p.m)
             /\ lineNum' = p.n
             /\ err' = p.err
             /\ warnings' = p.warn
             /\ input' = SubSeq(file, 1, p.n)
             /\ out' = Cmd4Print(p.err)
    /\ dirty' = (<<gRows, gCols, gElem, gObj>> # <<<<>>, <<>>, <<>>, <<>>>>)
    /\ cmdOption' = "4"
    /\ calls' = <<>>
    /\ fault' = NoFailure
    /\ UNCHANGED <<pc, sObjVal, sRows, sCols, gpxMenuOn, cplex>>

\* What a command that reads no file and calls no gpx function leaves as
\* it is, and the histories it starts afresh.
NoFileNoCall ==
    /\ warnings' = <<>>
    /\ input' = <<>>
    /\ calls' = <<>>
    /\ fault' = NoFailure
    /\ UNCHANGED <<pc, gName, gRows, gCols, gElem, gObj, sObjVal, sRows,
                   sCols, readState, lineNum, err, dirty, cplex>>

\* Command "g": toggle of the gpx function exerciser.
CmdG ==
    /\ pc = "menu"
    /\ gpxMenuOn' = ~gpxMenuOn
    /\ out' = IF gpxMenuOn THEN "disabled" ELSE "options"
    /\ cmdOption' = "g"
    /\ NoFileNoCall

\* A command of the gpx function exerciser (the first that printOptions
\* lists), and a string that is no command.
GpxCmds == {"61"}
NoCmds  == {"x"}

\* runGpxWrapper(cmdOption): nil when the command is one of the exerciser.
runGpxWrapper(c) == IF c \in GpxCmds THEN "nil" ELSE "error"

\* The default case of the switch: "gpx function" when runGpxWrapper took
\* the command, "unsupported" when the command is reported as unsupported.
DefaultCase(c, gpxOn) ==
    IF gpxOn /\ runGpxWrapper(c) = "nil" THEN "gpx function"
    ELSE "unsupported"

\* A command that is none of the cases of the switch.
CmdDefault ==
    /\ pc = "menu"
    /\ \E c \in GpxCmds \cup NoCmds :
         /\ cmdOption' = c
         /\ out' = DefaultCase(c, gpxMenuOn)
    /\ NoFileNoCall
    /\ UNCHANGED gpxMenuOn

NextMenu ==
    Cmd0 \/ Cmd1 \/ Cmd3 \/ Cmd4File \/ CmdG \/ CmdDefault

SpecMenu == Init /\ [][NextMenu]_vars

----------------------------------------------------------------------------
\* The functions of package gpx called one at a time, in any order, on the
\* package globals, after option 4 has populated the input lists.

InitGpx ==
    /\ pc = "menu"
    /\ \E file \in {LpFile} :
         \E p \in {FirstParse(file)} :
             /\ readState = p.m.readState
             /\ gName = p.m.name
             /\ gRows = p.m.rows /\ gCols = p.m.cols
             /\ gElem = p.m.elem /\ gObj = p.m.obj
             /\ lineNum = p.n
             /\ err = p.err
             /\ warnings = p.warn
             /\ input = SubSeq(file, 1, p.n)
             /\ out = Cmd4Print(p.err)
    /\ sObjVal = "0" /\ sRows = <<>> /\ sCols = <<>>
    /\ dirty = FALSE
    /\ cmdOption = "4"
    /\ gpxMenuOn = FALSE
    /\ cplex = NoCplex
    /\ calls = <<>>
    /\ fault = NoFailure

\* The solver call of a function that fails: none or one of `some' when a
\* problem is loaded, the first when none is, lp being NULL.
StatusIn(some) == IF cplex.lp THEN {0} \cup some ELSE {1}

\* What a call of the gpx function op leaves behind: res is what it
\* returned and c the C globals after it, st the solver call that failed.
Returned(op, res, c, st) ==
    /\ cplex' = c
    /\ calls' = <<[op |-> op, res |-> res, ctype |-> c.ctype]>>
    /\ fault' = IF st = 0 THEN NoFailure ELSE [op |-> op, st |-> st]
    /\ pc' = IF res = "panic" THEN "panic" ELSE "menu"
    /\ UNCHANGED <<gName, gRows, gCols, gElem, gObj, readState, lineNum,
                   err, warnings, input, dirty, out, cmdOption, gpxMenuOn>>

CallCreateProb ==
    /\ pc = "menu"
    /\ \E st \in 0..3 : \E r \in {CreateProb(gName, cplex, st)} :
         Returned("CreateProb", r.res, r.c, st)
    /\ UNCHANGED <<sObjVal, sRows, sCols>>

CallNewRows ==
    /\ pc = "menu"
    /\ Len(cplex.rows) + Len(gRows) <= MaxSolverLen
    /\ \E st \in StatusIn({1}) : \E r \in {NewRows(gRows, cplex, st)} :
         Returned("NewRows", r.res, r.c, st)
    /\ UNCHANGED <<sObjVal, sRows, sCols>>

CallNewCols ==
    /\ pc = "menu"
    /\ Len(cplex.cols) + Len(gCols) <= MaxSolverLen
    /\ \E st \in StatusIn({1}) :
         \E r \in {NewCols(gObj, gCols, cplex, st)} :
             Returned("NewCols", r.res, r.c, st)
    /\ UNCHANGED <<sObjVal, sRows, sCols>>

\* A call with the pointers &sObjVal, &sRows, &sCols.
SetSoln(sol) ==
    /\ sObjVal' = sol.objVal
    /\ sRows' = sol.sRows
    /\ sCols' = sol.sCols

CallGetSolution ==
    /\ pc = "menu"
    /\ Len(sRows) + Len(cplex.rows) <= MaxSolnLen
    /\ Len(sCols) + Len(cplex.cols) <= MaxSolnLen
    /\ \E st \in StatusIn({1, 3, 5}), v \in SolverValues :
         \E r \in {GetSolution(Soln(sObjVal, sRows, sCols), cplex, st, v)} :
             /\ SetSoln(r.val)
             /\ Returned("GetSolution", r.res, cplex, st)

CallGetMipSolution ==
    /\ pc = "menu"
    /\ \E st \in StatusIn({1, 4, 7}), v \in SolverValues :
         \E r \in {GetMipSolution(Soln(sObjVal, sRows, sCols), cplex, st,
                                   v)} :
             /\ SetSoln(r.val)
             /\ Returned("GetMipSolution", r.res, cplex, st)

CallGetColName ==
    /\ pc = "menu"
    /\ \E st \in StatusIn({1}) : \E r \in {GetColName(sCols, cplex, st)} :
         /\ sCols' = r.val
         /\ Returned("GetColName", r.res, cplex, st)
    /\ UNCHANGED <<sObjVal, sRows>>

CallGetRowName ==
    /\ pc = "menu"
    /\ \E st \in StatusIn({1}) : \E r \in {GetRowName(sRows, cplex, st)} :
         /\ sRows' = r.val
         /\ Returned("GetRowName", r.res, cplex, st)
    /\ UNCHANGED <<sObjVal, sCols>>

CallGetX ==
    /\ pc = "menu"
    /\ \E st \in StatusIn({1}), v \in SolverValues :
         \E r \in {GetX(sCols, cplex, st, v)} :
             /\ sCols' = r.val
             /\ Returned("GetX", r.res, cplex, st)
    /\ UNCHANGED <<sObjVal, sRows>>

CallGetSlack ==
    /\ pc = "menu"
    /\ \E st \in StatusIn({1}), v \in SolverValues :
         \E r \in {GetSlack(sRows, cplex, st, v)} :
             /\ sRows' = r.val
             /\ Returned("GetSlack", r.res, cplex, st)
    /\ UNCHANGED <<sObjVal, sCols>>

CallCloseCplex ==
    /\ pc = "menu"
    /\ \E st \in 0..3 : \E r \in {CloseCplex(cplex, st)} :
         Returned("CloseCplex", r.res, r.c, st)
    /\ UNCHANGED <<sObjVal, sRows, sCols>>

NextGpx ==
    \/ CallCreateProb \/ CallNewRows \/ CallNewCols
    \/ CallGetSolution \/ CallGetMipSolution
    \/ CallGetColName \/ CallGetRowName \/ CallGetX \/ CallGetSlack
    \/ CallCloseCplex

SpecGpx == InitGpx /\ [][NextGpx]_vars

TypeOK ==
    /\ pc \in {"menu", "read", "exit", "panic"}
    /\ readState \in -1..5
    /\ lineNum \in Nat
    /\ gpxMenuOn \in BOOLEAN

----------------------------------------------------------------------------
\* The file format in its own terms: what the lines read so far are, and
\* what they stand for.  `in' is a sequence of ReadString results.

Keywords == {"PROBLEM_NAME:", "OBJECTIVE_START", "ROWS_START",
             "COLUMNS_START", "ELEMENTS_START", "END_DATA"}

KeywordState(w) ==
    CASE w = "PROBLEM_NAME:"   -> 0
      [] w = "OBJECTIVE_START" -> 1
      [] w = "ROWS_START"      -> 2
      [] w = "COLUMNS_START"   -> 3
      [] w = "ELEMENTS_START"  -> 4
      [] w = "END_DATA"        -> 5

FieldCount(b) == CASE b = 1 -> 2 [] b = 2 -> 4 [] b = 3 -> 4 [] b = 4 -> 3

BlockError(b) ==
    CASE b = 1 -> "OBJ" [] b = 2 -> "ROW" [] b = 3 -> "COL" [] b = 4 -> "ELEM"

\* A line ended by a newline.
Complete(r)  == r.err = "nil"
\* A comment line: the comment marker is its first character.
IsComment(r) == /\ r.line.indent = 0
                /\ r.line.words # <<>>
                /\ FirstChar(r.line.words[1]) = "#"
IsBlank(r)   == r.line.words = <<>>
Keyword(r)   == ToUpper(r.line.words[1])
IsKeyword(r) == ~IsComment(r) /\ ~IsBlank(r) /\ Keyword(r) \in Keywords
IsOther(r)   == ~IsComment(r) /\ ~IsBlank(r) /\ Keyword(r) \notin Keywords
IsEndData(r) == IsKeyword(r) /\ Keyword(r) = "END_DATA"
IsNameLine(r) == IsKeyword(r) /\ Keyword(r) = "PROBLEM_NAME:"

Last(S) == CHOOSE i \in S : \A j \in S : j <= i

\* The state the keyword lines among in[1..i-1] leave the parser in: that
\* of the last of them, -1 when there is none.
RECURSIVE StateBefore(_, _)
StateBefore(in, i) ==
    IF i <= 1 THEN -1
    ELSE IF Complete(in[i - 1]) /\ IsKeyword(in[i - 1])
         THEN KeywordState(Keyword(in[i - 1]))
         ELSE StateBefore(in, i - 1)

\* in[i] is a data line of block b with the field count of that block.
IsData(in, i, b) ==
    /\ Complete(in[i]) /\ IsOther(in[i])
    /\ Len(in[i].line.words) = FieldCount(b)
    /\ StateBefore(in, i) = b

\* The entry a data line with fields f stands for in block b.
Entry(b, f) ==
    CASE b = 1 -> InputObjCoef(ParseInt(f[1]), ParseFloat(f[2]))
      [] b = 2 -> InputRow(f[1], f[2], ParseFloat(f[3]), ParseFloat(f[4]))
      [] b = 3 -> InputCol(f[1], f[2], ParseFloat(f[3]), ParseFloat(f[4]))
      [] b = 4 -> InputElem(ParseInt(f[1]), ParseInt(f[2]), ParseFloat(f[3]))

\* The entries of the data lines of block b among in[1..k], in file order.
RECURSIVE Entries(_, _, _)
Entries(in, b, k) ==
    IF k = 0 THEN <<>>
    ELSE IF IsData(in, k, b)
         THEN Append(Entries(in, b, k - 1), Entry(b, in[k].line.words))
         ELSE Entries(in, b, k - 1)

ExpectedObj(in)  == Entries(in, 1, Len(in))
ExpectedRows(in) == Entries(in, 2, Len(in))
ExpectedCols(in) == Entries(in, 3, Len(in))
ExpectedElem(in) == Entries(in, 4, Len(in))

ListsAre(in) ==
    /\ gObj  = ExpectedObj(in)
    /\ gRows = ExpectedRows(in)
    /\ gCols = ExpectedCols(in)
    /\ gElem = ExpectedElem(in)

\* The globals are as the current/last call of wpReadGpxFile left or leaves
\* them: nothing was printed after what that call and its caller printed.
InParse == out \in {"file name", "populated", "error"}
Succeeded == out = "populated"
Failed == out = "error"

\* Keyword lines, comment lines, blank lines and data lines of the active
\* block with its field count, the last line being END_DATA.
WellFormed(in) ==
    /\ Len(in) >= 1
    /\ \A i \in 1..Len(in) : Complete(in[i])
    /\ IsEndData(in[Len(in)])
    /\ \A i \in 1..(Len(in) - 1) :
         \/ IsComment(in[i]) \/ IsBlank(in[i])
         \/ IsKeyword(in[i]) /\ ~IsEndData(in[i])
         \/ \E b \in 1..4 : IsData(in, i, b)

----------------------------------------------------------------------------
C2_ListsOfThisParse == InParse => ListsAre(input)

C2_Witness ==
    /\ dirty /\ Succeeded
    /\ Len(gCols) = 1 /\ gRows = <<>> /\ gObj = <<>> /\ gElem = <<>>

\* No PROBLEM_NAME: line with a second field was read.
NameOmitted(in) ==
    \A i \in 1..Len(in) :
        (Complete(in[i]) /\ IsNameLine(in[i])) => Len(in[i].line.words) = 1

\* C3: after a successful parse of an input that omits the problem name
\* (no PROBLEM_NAME: line, or one without a second field) the name is
\* "NoName".
C3_NoNameDefault == (Succeeded /\ NameOmitted(input)) => gName = "NoName"

NoNameLine(in) ==
    \A i \in 1..Len(in) : ~(Complete(in[i]) /\ IsNameLine(in[i]))

\* C4: the name slot is reset on entry of wpReadGpxFile: after a successful
\* parse of an input without a PROBLEM_NAME: line the slot holds no name
\* that an earlier parse has set.
C4_NameReset == (Succeeded /\ NoNameLine(input)) => gName \in {"", "NoName"}

NameLines(in) == {i \in 1..Len(in) : Complete(in[i]) /\ IsNameLine(in[i])}
ValuedNameLines(in) == {i \in NameLines(in) : Len(in[i].line.words) >= 2}

\* C5 as stated: after a successful parse the name is the second field of
\* the last PROBLEM_NAME: line that has a second field.
C5_LastValuedNameLine ==
    (Succeeded /\ ValuedNameLines(input) # {}) =>
        gName = input[Last(ValuedNameLines(input))].line.words[2]

\* C5, amended: after a successful parse the last PROBLEM_NAME: line read
\* decides the name: its second field when it has one, "NoName" otherwise.
C5_LastNameLine ==
    (Succeeded /\ NameLines(input) # {}) =>
        LET w == input[Last(NameLines(input))].line.words
        IN  gName = IF Len(w) >= 2 THEN w[2] ELSE "NoName"

C5_Witness ==
    /\ Succeeded /\ gName = "B"
    /\ Len(input) >= 2 /\ input[1].line = NameA /\ input[2].line = NameB

\* C6: in states 1..4 a non-keyword, non-comment, non-blank line whose
\* field count is not that of the active block ends the parse with the
\* error of that block, carrying the physical number of that line.
C6_FieldCountError ==
    InParse =>
      \A i \in 1..Len(input) :
        (/\ Complete(input[i]) /\ IsOther(input[i])
         /\ StateBefore(input, i) \in 1..4
         /\ Len(input[i].line.words) # FieldCount(StateBefore(input, i)))
        => /\ i = Len(input)
           /\ pc = "menu" /\ Failed
           /\ err = Errorf(BlockError(StateBefore(input, i)), i)

C6_Witness ==
    /\ Failed /\ err = Errorf("ROW", 3)
    /\ Len(input) = 3 /\ IsComment(input[1]) /\ input[3].line = ObjLine

\* C7: a non-blank, non-comment, non-keyword line read before any keyword
\* line ends the parse with the unexpected-format error carrying its line
\* number, and that error is returned in no other case.
C7_UnexpectedFormat ==
    InParse =>
      /\ \A i \in 1..Len(input) :
           (Complete(input[i]) /\ IsOther(input[i])
              /\ StateBefore(input, i) = -1)
           => /\ i = Len(input)
              /\ pc = "menu" /\ Failed
              /\ err = Errorf("format", i)
      /\ err.kind = "format" =>
           /\ Len(input) >= 1
           /\ IsOther(input[Len(input)])
           /\ StateBefore(input, Len(input)) = -1

C7_Witness ==
    /\ Failed /\ err = Errorf("format", 2)
    /\ Len(input) = 2 /\ IsBlank(input[1]) /\ input[2].line = RowLine

\* C8: the END_DATA line is the last line read: the call returns success at
\* once, with the name and the lists as the lines before it left them.
C8_EndDataStops ==
    InParse =>
      \A i \in 1..Len(input) :
        (Complete(input[i]) /\ IsEndData(input[i]))
        => /\ i = Len(input)
           /\ pc = "menu" /\ Succeeded /\ err = Nil
           /\ ListsAre(SubSeq(input, 1, i - 1))

C8_Witness ==
    /\ Succeeded /\ Len(input) = 3
    /\ Complete(input[3]) /\ IsEndData(input[3])
    /\ Len(gRows) = 1

NoEndData(in) ==
    \A i \in 1..Len(in) : ~(Complete(in[i]) /\ IsEndData(in[i]))

\* C9: when end-of-input is reached and no END_DATA line was read, the call
\* returns success with what the lines read have accumulated; an input of
\* comment and blank lines only gives success with four empty lists.
C9_EndOfInputSuccess ==
    (InParse /\ Len(input) >= 1 /\ input[Len(input)].err = "EOF"
       /\ NoEndData(input)) =>
        /\ pc = "menu" /\ Succeeded /\ err = Nil
        /\ ListsAre(SubSeq(input, 1, Len(input) - 1))
        /\ (\A i \in 1..Len(input) : IsComment(input[i]) \/ IsBlank(input[i]))
             => <<gObj, gRows, gCols, gElem>> = <<<<>>, <<>>, <<>>, <<>>>>

C9_Witness ==
    /\ Succeeded /\ Len(input) = 3 /\ input[3].err = "EOF"
    /\ IsComment(input[1]) /\ IsBlank(input[2]) /\ IsBlank(input[3])
    /\ <<gObj, gRows, gCols, gElem>> = <<<<>>, <<>>, <<>>, <<>>>>

\* C10: a parse that returns success has printed the missing-terminator
\* warning, once, exactly when its input holds no END_DATA line, be that
\* line ended by a newline or by the end of the file.
C10_WarningIffNoEndData ==
    Succeeded =>
        /\ Len(warnings) <= 1
        /\ warnings # <<>> <=>
             ~ \E i \in 1..Len(input) : IsEndData(input[i])

\* The step is an iteration of the read loop: ReadString has returned.
LineRead == Len(input') = Len(input) + 1
\* What ReadString returned in that iteration.
JustRead == input'[Len(input')]
\* The iteration changed nothing but the line counter and went on to the
\* next line.
Skipped ==
    /\ UNCHANGED <<readState, gName, gRows, gCols, gElem, gObj, warnings>>
    /\ err' = Nil /\ pc' = "read"
\* '#' is the first character of the line after optional whitespace.
HashFirst(r) == r.line.words # <<>> /\ FirstChar(r.line.words[1]) = "#"

\* C11 as stated: a line whose first non-whitespace character is '#',
\* preceded by whitespace or not, is skipped in every parser state: no
\* state change, no error, no appended entry.
C11_HashLineSkipped ==
    [][(LineRead /\ Complete(JustRead) /\ HashFirst(JustRead)) => Skipped]_vars

\* C11, amended: a line whose first character is '#' is skipped in every
\* parser state; a line whose '#' follows whitespace is no comment: it is
\* split into fields and handled as any other non-keyword line (format
\* error before the first keyword line, skipped in state 0, field-count
\* check of the active block in states 1..4).
C11_FirstColumnHashSkipped ==
    [][(LineRead /\ Complete(JustRead) /\ HashFirst(JustRead)) =>
         IF JustRead.line.indent = 0 THEN Skipped
         ELSE CASE readState = -1 ->
                     pc' = "menu" /\ err' = Errorf("format", lineNum')
                [] readState = 0 -> Skipped
                [] OTHER ->
                     \/ /\ Len(JustRead.line.words) # FieldCount(readState)
                        /\ pc' = "menu"
                        /\ err' = Errorf(BlockError(readState), lineNum')
                     \/ /\ Len(JustRead.line.words) = FieldCount(readState)
                        /\ pc' = "read" /\ err' = Nil]_vars

C11_Witness ==
    /\ Failed /\ err = Errorf("ROW", 3) /\ Len(input) = 3
    /\ input[1].line = RowsStart /\ input[2].line = Comment
    /\ input[3].line = IndentedHash

\* C12: when the parse fails at line k (k = 0: the file could not be
\* opened), line k is the last line read, the call has returned, and the
\* four lists hold exactly the entries of the data lines before line k.
C12_FailureKeepsPrefix ==
    Failed =>
        /\ pc = "menu" /\ err # Nil
        /\ Len(input) = err.line
        /\ ListsAre(SubSeq(input, 1, err.line - 1))

C12_Witness ==
    /\ Failed /\ err = Errorf("OBJ", 3)
    /\ input[2].line = ObjLine /\ input[3].line = RowLine
    /\ gObj = <<InputObjCoef(0, "1")>>

\* The list of block b.
ListOf(b, obj, rows, cols, elem) ==
    CASE b = 1 -> obj [] b = 2 -> rows [] b = 3 -> cols [] b = 4 -> elem

DataLineRead ==
    /\ LineRead /\ Complete(JustRead) /\ IsOther(JustRead)
    /\ readState \in 1..4
    /\ Len(JustRead.line.words) = FieldCount(readState)
\* The entry that step appended.
NewEntry ==
    LET l == ListOf(readState, gObj', gRows', gCols', gElem') IN l[Len(l)]
\* The numeric fields of a data line of block b, as <<position in the
\* line, field of the entry, "int" or "float">>.
NumericFields(b) ==
    CASE b = 1 -> {<<1, "ColIndex", "int">>, <<2, "Value", "float">>}
      [] b = 2 -> {<<3, "Rhs", "float">>, <<4, "RngVal", "float">>}
      [] b = 3 -> {<<3, "BndLo", "float">>, <<4, "BndUp", "float">>}
      [] b = 4 -> {<<1, "RowIndex", "int">>, <<2, "ColIndex", "int">>,
                   <<3, "Value", "float">>}
ConvErr(f, s) == IF f[3] = "int" THEN ParseIntErr(s) ELSE ParseFloatErr(s)
Zero(f) == IF f[3] = "int" THEN 0 ELSE "0"
\* One entry more in the list of the active block, no error, loop goes on.
Appended ==
    /\ Len(ListOf(readState, gObj', gRows', gCols', gElem'))
         = Len(ListOf(readState, gObj, gRows, gCols, gElem)) + 1
    /\ err' = Nil /\ pc' = "read"

\* C14 as stated: a data line with the right field count and a numeric
\* field whose conversion fails does not end the parse: its entry is
\* appended, and every field whose conversion failed holds 0.
C14_FailedFieldIsZero ==
    [][DataLineRead =>
         /\ Appended
         /\ \A f \in NumericFields(readState) :
              ConvErr(f, JustRead.line.words[f[1]]) # "nil"
                => NewEntry[f[2]] = Zero(f)]_vars

\* C14, amended: such a line does not end the parse and its entry is
\* appended; a field whose conversion failed holds what strconv returned
\* with the error: 0 for a syntax error, an infinity for a floating-point
\* value out of range.
C14_FailedFieldIsConvResult ==
    [][DataLineRead =>
         /\ Appended
         /\ \A f \in NumericFields(readState) :
              LET e == ConvErr(f, JustRead.line.words[f[1]])
              IN  /\ e = "syntax" => NewEntry[f[2]] = Zero(f)
                  /\ (e = "range" /\ f[3] = "float")
                       => NewEntry[f[2]] \in {"+Inf", "-Inf"}]_vars

C14_Witness ==
    /\ pc = "read" /\ Len(input) = 2 /\ input[2].line = ElemLine
    /\ gElem = <<InputElem(1, 0, "+Inf")>>

C19_InitResetsAll ==
    out = "initialized" =>
        /\ gName = ""
        /\ gRows = <<>> /\ gCols = <<>> /\ gElem = <<>> /\ gObj = <<>>
        /\ sObjVal = "0" /\ sRows = <<>> /\ sCols = <<>>

\* C16: when wpReadGpxFile has returned an error under option 1 or option
\* 4 (file not opened, unexpected format, field count, read error), the
\* error has been printed, no gpx function was called and runMainWrapper
\* is at its prompt; the command loop has returned only on option 0.
C16_ReadErrorBackToPrompt ==
    /\ (cmdOption \in {"1", "4"} /\ err # Nil) =>
          /\ pc = "menu" /\ out = "error" /\ calls = <<>>
    /\ pc = "exit" => cmdOption = "0"

C16_Witness ==
    /\ cmdOption = "1" /\ err = Errorf("OBJ", 3)
    /\ pc = "menu" /\ out = "error"

\* The names of the functions called.
Ops == [i \in 1..Len(calls) |-> calls[i].op]

\* The orders in which a run of wpSolveFromStruct that reaches its end
\* calls the gpx functions.
FullOrders ==
    {<<"CreateProb", "OutputToScreen", "NewRows", "NewCols", "ChgCoefList">>
       \o solve \o save \o <<"CloseCplex">> :
       solve \in {<<"LpOpt", "GetSolution">>, <<"MipOpt", "GetMipSolution">>},
       save \in {<<>>, <<"SolWrite">>, <<"wpWriteProb">>,
                 <<"SolWrite", "wpWriteProb">>}}

\* C17: wpSolveFromStruct calls gpx only after wpReadGpxFile returned nil,
\* in the order CreateProb, OutputToScreen, NewRows, NewCols, ChgCoefList,
\* LpOpt and GetSolution or MipOpt and GetMipSolution, the optional writes,
\* CloseCplex; a function is called only when all before it returned nil,
\* and the run that meets no error calls them all.
C17_FixedCallOrder ==
    cmdOption = "1" =>
        /\ calls # <<>> => err = Nil
        /\ \E full \in FullOrders :
              /\ Len(calls) <= Len(full)
              /\ Ops = SubSeq(full, 1, Len(calls))
              /\ out = "solved" => Len(calls) = Len(full)
        /\ \A i \in 1..(Len(calls) - 1) : calls[i].res = "nil"
        /\ out = "solved" <=>
              (calls # <<>> /\ calls[Len(calls)].res = "nil")

C17_Witness ==
    /\ cmdOption = "1" /\ out = "solved"
    /\ Ops = <<"CreateProb", "OutputToScreen", "NewRows", "NewCols",
               "ChgCoefList", "LpOpt", "GetSolution", "SolWrite",
               "wpWriteProb", "CloseCplex">>

\* Some column of the model read is not continuous.
SomeColNotC == \E i \in 1..Len(gCols) : gCols[i].Type # "C"

\* C18: MipOpt and GetMipSolution are the ones called exactly when some
\* column has a type other than "C", LpOpt and GetSolution when all are
\* "C"; NewCols gives the solver the type array under the same condition,
\* so LpOpt is never called on a problem created with a type array.
C18_MipIffTypeArray ==
    cmdOption = "1" =>
      \A i \in 1..Len(calls) :
        /\ calls[i].op \in {"MipOpt", "GetMipSolution"} => SomeColNotC
        /\ calls[i].op \in {"LpOpt", "GetSolution"} => ~SomeColNotC
        /\ (calls[i].op = "NewCols" /\ calls[i].res = "nil") =>
              calls[i].ctype = IF SomeColNotC THEN "types" ELSE "NULL"
        /\ calls[i].op = "LpOpt" => calls[i].ctype = "NULL"
        /\ calls[i].op = "MipOpt" => calls[i].ctype = "types"

C18_Witness ==
    /\ cmdOption = "1" /\ out = "solved"
    /\ Len(gCols) = 2 /\ gCols[1].Type = "C" /\ gCols[2].Type = "I"
    /\ \E i \in 1..Len(calls) : calls[i].op = "GetMipSolution"

\* C20: a command of the gpx function exerciser is handed to it whether
\* its menu is shown (gpxMenuOn) or hidden.
C20_FlagsDoNotGateCommands ==
    (pc = "menu" /\ cmdOption \in GpxCmds) => out = "gpx function"

\* The read results that are lines ended by a newline.
CompleteLines(in) == {i \in 1..Len(in) : Complete(in[i])}

\* The read result ends the loop: end of file, a read error, END_DATA, or
\* a line the call returned an error for.
EndsLoop(in) ==
    /\ in # <<>>
    /\ \/ ~Complete(in[Len(in)])
       \/ IsEndData(in[Len(in)])
       \/ err # Nil

\* C24: the parse of a finite input terminates: each iteration of the loop
\* consumes one line, the loop ends at the first END_DATA, error or end of
\* input, after at most (number of lines + 1) calls of ReadString.
C24_ParseTerminates ==
    /\ [](InParse =>
            /\ lineNum = Len(input)
            /\ Len(input) <= Cardinality(CompleteLines(input)) + 1
            /\ \A i \in 1..(Len(input) - 1) :
                  Complete(input[i]) /\ ~IsEndData(input[i])
            /\ pc = "read" => ~EndsLoop(input)
            /\ (pc = "menu" /\ cmdOption = "4" /\ input # <<>>)
                  => EndsLoop(input))
    /\ (pc = "read") ~> (pc = "menu")

C24_Witness ==
    /\ pc = "menu" /\ Succeeded
    /\ lineNum = MaxLines + 1
    /\ Cardinality(CompleteLines(input)) = MaxLines
    /\ input[Len(input)].err = "EOF"

\* C25: for an input of N lines, each ended by a newline, none of them
\* END_DATA, the missing-terminator warning reports N.
C25_WarningReportsLineCount ==
    (Succeeded /\ Len(input) >= 1
       /\ input[Len(input)] = [line |-> Blank, err |-> "EOF"]
       /\ NoEndData(input)) =>
        warnings = <<Len(input) - 1>>

\* `in' with its last line ended by a newline.
Terminated(in) == [in EXCEPT ![Len(in)].err = "nil"]

\* C27: in an input without END_DATA, a last line without a newline that is
\* a data line of the active block is processed as a line with a newline
\* is: its entry is in the result when it has the field count of the
\* block, and the parse fails with the block's error when it has not.
C27_UnterminatedLastLine ==
    (InParse /\ pc = "menu" /\ Len(input) >= 1
       /\ input[Len(input)].err = "EOF" /\ NoEndData(input)
       /\ IsOther(input[Len(input)])
       /\ StateBefore(input, Len(input)) \in 1..4) =>
        LET k == Len(input)
            b == StateBefore(input, k)
        IN  IF Len(input[k].line.words) = FieldCount(b)
            THEN Succeeded /\ ListsAre(Terminated(input))
            ELSE Failed /\ err = Errorf(BlockError(b), k)

\* C29: in state 0 a line that is no keyword line, no comment line and
\* not blank is skipped whatever its field count: no error, and the state,
\* the name and the four lists stay as they are.
C29_State0LineSkipped ==
    [][(LineRead /\ Complete(JustRead) /\ readState = 0
          /\ IsOther(JustRead)) => Skipped]_vars

C29_Witness ==
    /\ pc = "read" /\ readState = 0 /\ Len(input) = 2
    /\ input[1] = [line |-> NameA, err |-> "nil"]
    /\ input[2] = [line |-> RowLine, err |-> "nil"]
    /\ gName = "A" /\ gRows = <<>> /\ err = Nil

\* The iteration that read r in state rs reaches the test of curLine[0].
ReachesCurLine0(r, rs) ==
    /\ ~(r.err = "EOF" /\ rs # 5)
    /\ r.err # "fault"

\* C30: wpReadGpxFile tests curLine[0] on a non-empty line only and reads
\* token[i] only for i below the number of tokens, so no call panics and
\* every row and column appended has a non-empty name and a non-empty
\* sense or type.
C30_NoEmptyIndex ==
    /\ [](/\ err.kind # "panic"
          /\ \A i \in 1..Len(gRows) :
                gRows[i].Name # "" /\ gRows[i].Sense # ""
          /\ \A i \in 1..Len(gCols) :
                gCols[i].Name # "" /\ gCols[i].Type # "")
    /\ [][(LineRead /\ ReachesCurLine0(JustRead, readState)) =>
            /\ RawLen(JustRead) >= 1
            /\ (CurLine0(JustRead) # "#" /\ Fields(JustRead) # <<>>) =>
                  \A i \in TokensRead(Len(Fields(JustRead)),
                                       ToUpper(Fields(JustRead)[1]),
                                       readState) :
                      i < Len(Fields(JustRead))]_vars

C30_Witness ==
    /\ pc = "read" /\ Len(input) = 3
    /\ input[1] = [line |-> NameNone, err |-> "nil"]
    /\ input[2] = [line |-> RowsStart, err |-> "nil"]
    /\ input[3] = [line |-> Blank, err |-> "nil"]
    /\ gName = "NoName"

\* C26: when wpSolveFromStruct has returned to the command loop after a
\* run in which CreateProb succeeded, CloseCplex was called, whichever
\* later step failed, and unless the solver failed in CloseCplex itself
\* neither the environment nor the problem is still open.
C26_CloseCplexAlwaysCalled ==
    (pc = "menu" /\ cmdOption = "1" /\ calls # <<>>
       /\ calls[1].op = "CreateProb" /\ calls[1].res = "nil") =>
        /\ calls[Len(calls)].op = "CloseCplex"
        /\ fault.op # "CloseCplex" => (~cplex.env /\ ~cplex.lp)

\* C28: for a model read with success that has at least one column,
\* NewCols returns nil or an error: it does not panic on an objective
\* entry whose column index is outside the columns.
C28_NewColsInsideObjective ==
    (cmdOption = "1" /\ err = Nil /\ Len(gCols) >= 1) =>
        \A i \in 1..Len(calls) :
            calls[i].op = "NewCols" => calls[i].res \in {"nil", "error"}

\* The step is a call of the gpx function op.
CallOf(op) == calls' # <<>> /\ calls'[1].op = op

\* C21: called on a problem with rows and columns, with no solver call
\* failing, GetSolution and GetMipSolution return nil and leave as many
\* entries in sRows as the problem has rows and as many in sCols as it
\* has columns, whatever the two slices held before the call.
C21_SolutionListsCreated ==
    [][((CallOf("GetSolution") \/ CallOf("GetMipSolution"))
          /\ fault' = NoFailure
          /\ Len(cplex.rows) >= 1 /\ Len(cplex.cols) >= 1) =>
            /\ calls'[1].res = "nil"
            /\ Len(sRows') = Len(cplex.rows)
            /\ Len(sCols') = Len(cplex.cols)]_vars

\* C22: CloseCplex returns an error when CPXfreeprob or CPXcloseCPLEX
\* failed and nil only when every call it made succeeded; with neither a
\* problem nor an environment open it returns nil and changes nothing.
C22_CloseCplexReportsFailure ==
    [][CallOf("CloseCplex") =>
         LET freeFailed  == cplex.lp /\ fault'.st \in {1, 3}
             closeFailed == cplex.env /\ fault'.st \in {2, 3}
         IN  /\ calls'[1].res = "error" <=> (freeFailed \/ closeFailed)
             /\ (~cplex.lp /\ ~cplex.env) =>
                   (calls'[1].res = "nil" /\ cplex' = cplex)]_vars

\* Entries e and f are equal but for the field fld.
SameBut(e, f, fld) ==
    /\ DOMAIN e = DOMAIN f
    /\ \A g \in DOMAIN e \ {fld} : e[g] = f[g]

\* A call that is given the slice `old' and leaves it as `new' wrote at
\* most the field fld of the first n entries.
WroteOnly(old, new, fld, n) ==
    /\ Len(new) = Len(old)
    /\ \A i \in 1..Len(old) :
          IF i <= n THEN SameBut(old[i], new[i], fld) ELSE new[i] = old[i]

====
